---- MODULE Spec2Model ----
(***************************************************************************)
(* firmirror: the synchronisation and metadata reconciliation engine.      *)
(* A run is main(): register vendors, LoadMetadata, ProcessVendor for each *)
(* registered vendor, and the deferred SaveMetadata.  Several runs work on *)
(* the same storage and the same cache directory, one after the other.     *)
(***************************************************************************)
EXTENDS Integers, Sequences, FiniteSets, TLC

\* ------------------------------------------------------------------------
\* Bounds of the model
\* ------------------------------------------------------------------------
NumFiles == 2
NumVendors == 2
MaxEntries == 2
MaxListed == 3
MaxListedRuns == 2
MaxRuns == 2
MaxHandles == 2

\* ------------------------------------------------------------------------
\* The upstream world: firmware files, the vendors that list them
\* ------------------------------------------------------------------------
FwNames == <<"a.bin", "b.bin", "c.bin", "d.bin", "e.bin">>

Files == {FwNames[i] : i \in 1..NumFiles}

VendorNames == <<"dell", "hpe-gen10", "hpe-gen11", "hpe-gen12">>

Vendors == {VendorNames[i] : i \in 1..NumVendors}

\* every listing a vendor's catalog can be: at most MaxEntries entries, a
\* filename may be listed more than once
Listings == UNION {[1..n -> Files] : n \in 0..MaxEntries}

\* what the vendors can list between them: at most MaxListed entries
RECURSIVE SumLen(_, _)
SumLen(listing, names) ==
    IF names = {} THEN 0
    ELSE LET n == CHOOSE x \in names : TRUE
         IN  Len(listing[n]) + SumLen(listing, names \ {n})

Upstreams == {c \in [Vendors -> Listings] : SumLen(c, Vendors) <= MaxListed}

FetchErrors == {"catalog fetch failed", "catalog parse failed"}

\* a nil pointer; a pointer to x is <<x>>
Nil == <<>>

NoError == ""

\* ------------------------------------------------------------------------
\* lvfs records, as the syncer uses them
\* ------------------------------------------------------------------------
Checksum(fn, target, type, value) ==
    [Filename |-> fn, Target |-> target, Type |-> type, Value |-> value]

Release(version, checksums, location) ==
    [Version |-> version, Checksums |-> checksums, Location |-> location]

Component(id, summary, url, releases) ==
    [ID |-> id, Summary |-> summary, URL |-> url, Releases |-> releases]

Components(comps) == [Origin |-> "firmirror", Component |-> comps]

\* ------------------------------------------------------------------------
\* FirmwareEntry: what an entry of a catalog answers
\* ------------------------------------------------------------------------
GetFilename(entry) == entry

GetSourceURL(entry) ==
    IF entry = "a.bin" THEN "" ELSE "https://downloads.example/" \o entry

\* the identity of the component an entry converts to: every converter names
\* its components in its own namespace, after the device (one device here)
ComponentID(vendorName, entry) ==
    IF vendorName = "dell" THEN "com.dell.x" ELSE "com.hpe.y"

\* the release skeleton a converter returns: exactly one release, with the
\* converter's own checksum record (filename and target, no digest) and no
\* Location
DraftReleases(entry) ==
    <<Release("1.0 of " \o entry, <<Checksum(entry, "content", "", "")>>, "")>>

ToAppstream(vendorName, entry) ==
    Component(ComponentID(vendorName, entry), "summary of " \o entry, "",
              DraftReleases(entry))

\* ProcessVendor: the source URL, when there is one, becomes the homepage
AttachSourceURL(comp, sourceURL) ==
    IF sourceURL # "" THEN [comp EXCEPT !.URL = sourceURL] ELSE comp

\* the HPE entries carry the path their package was downloaded to
IsHPE(vendorName) == vendorName # "dell"

\* HPEVendor.RetrieveFirmware: path.Join(tmpDir, path.Base(Filename))
DownloadPathOf(fwFile) == fwFile \o ".wrk/" \o fwFile

\* the HPE converter as it would be without the test of the download path
HPEToAppstreamUnchecked(vendorName, entry, path, readable) ==
    IF ~readable THEN [err |-> "conversion failed", comp |-> Nil]
    ELSE [err |-> NoError, comp |-> <<ToAppstream(vendorName, entry)>>]

\* HPEFirmwareEntry.ToAppstream: no download path, no conversion; else the
\* payload is read from the package at that path, which can fail
HPEToAppstream(vendorName, entry, path, readable) ==
    IF path = ""
    THEN [err |-> "firmware must be retrieved first using RetrieveFirmware",
          comp |-> Nil]
    ELSE IF ~readable THEN [err |-> "conversion failed", comp |-> Nil]
    ELSE [err |-> NoError, comp |-> <<ToAppstream(vendorName, entry)>>]

\* entry.ToAppstream() of either vendor: the Dell converter works on the
\* catalog record alone
EntryToAppstream(vendorName, entry, path, readable) ==
    IF IsHPE(vendorName) THEN HPEToAppstream(vendorName, entry, path, readable)
    ELSE IF ~readable THEN [err |-> "conversion failed", comp |-> Nil]
    ELSE [err |-> NoError, comp |-> <<ToAppstream(vendorName, entry)>>]

\* ------------------------------------------------------------------------
\* buildPackage: the digests of the blob, put on every release
\* ------------------------------------------------------------------------
calculateChecksums(fwFile) ==
    [sha1 |-> "sha1(" \o fwFile \o ")", sha256 |-> "sha256(" \o fwFile \o ")"]

\* the attachment as it would be if the digests were added to the checksums
\* the converter had put on the release
AttachChecksumsAfterDraft(comp, fwFile) ==
    LET h == calculateChecksums(fwFile)
        sums == <<Checksum(fwFile, "content", "sha1", h.sha1),
                  Checksum(fwFile, "content", "sha256", h.sha256)>>
    IN  [comp EXCEPT !.Releases =
            [i \in 1..Len(comp.Releases) |->
                [comp.Releases[i] EXCEPT !.Checksums = @ \o sums]]]

AttachChecksums(comp, fwFile) ==
    LET h == calculateChecksums(fwFile)
        sums == <<Checksum(fwFile, "content", "sha1", h.sha1),
                  Checksum(fwFile, "content", "sha256", h.sha256)>>
    IN  [comp EXCEPT !.Releases =
            [i \in 1..Len(comp.Releases) |-> [comp.Releases[i] EXCEPT !.Checksums = sums]]]

\* ------------------------------------------------------------------------
\* The stored metadata object: XML, compressed
\* ------------------------------------------------------------------------
Absent == [kind |-> "absent"]

Garbage == [kind |-> "garbage"]

Marshal(doc) == [kind |-> "xml", doc |-> doc]

Compress(bytes) == [kind |-> "zst", data |-> bytes]

\* the detached signature record of a compressed document: its checksum,
\* and a signature when certificate and key are configured
Jcat(obj, signed) == [kind |-> "jcat", covers |-> obj, signed |-> signed]

\* a document published by an earlier tool version: container and content
\* checksums on one release, one of them without a filename, and a Location
\* that was set back then
LegacyDoc ==
    Components(<<
        Component("com.dell.x", "legacy summary", "https://legacy.example/x",
            <<Release("0.9",
                <<Checksum("legacy.cab", "container", "sha1", "sha1(legacy.cab)"),
                  Checksum("a.bin", "content", "sha1", "sha1(a.bin)"),
                  Checksum("", "content", "sha256", "sha256(a.bin)")>>,
                "legacy.cab")>>)
    >>)

\* what a run can find under metadata.xml.zst: nothing, bytes that are not
\* zstd, a zstd stream that is not XML, a published document
InitialObjects == {Absent, Garbage, Compress(Garbage), Compress(Marshal(LegacyDoc))}

\* ------------------------------------------------------------------------
\* LoadMetadata: the membership index of a parsed document
\* ------------------------------------------------------------------------
Range(seq) == {seq[i] : i \in DOMAIN seq}

ChecksumFilenames(doc) ==
    UNION {UNION {{ck.Filename : ck \in Range(rel.Checksums)} :
                    rel \in Range(comp.Releases)} :
            comp \in Range(doc.Component)}

\* the index as it would be if only the first checksum of a release counted
BuildIndexFirstChecksum(doc) ==
    {fn \in UNION {{rel.Checksums[1].Filename :
                        rel \in {r \in Range(comp.Releases) : Len(r.Checksums) > 0}} :
                    comp \in Range(doc.Component)} : fn # ""}

BuildIndex(doc) == {fn \in ChecksumFilenames(doc) : fn # ""}

\* ------------------------------------------------------------------------
\* SaveMetadata: the merge of the loaded document and the pending list
\* ------------------------------------------------------------------------
Put(map, key, value) ==
    [k \in DOMAIN map \cup {key} |-> IF k = key THEN value ELSE map[k]]

EmptyMap == [k \in {} |-> Nil]

\* componentMap[comp.ID] = &comp, for the components of the loaded document
RECURSIVE SeedExisting(_, _)
SeedExisting(comps, map) ==
    IF comps = <<>> THEN map
    ELSE SeedExisting(Tail(comps), Put(map, Head(comps).ID, Head(comps)))

\* the merge as it would be if the pending component's description were kept
\* and the releases of the map's component were put before its own
MergeOnePendingDescription(map, comp) ==
    IF comp.ID \in DOMAIN map
    THEN Put(map, comp.ID, [comp EXCEPT !.Releases = map[comp.ID].Releases \o @])
    ELSE Put(map, comp.ID, comp)

\* the merge as it would be if a pending component replaced the one in the map
MergeOneReplace(map, comp) == Put(map, comp.ID, comp)

\* a pending component of a known identity gives its releases to the
\* component of the map, any other one enters the map (the map holds the
\* address of a per-iteration copy: range variables are per iteration, as
\* the Dell listing at dell.go:126-129 needs them to be)
MergeOne(map, comp) ==
    IF comp.ID \in DOMAIN map
    THEN [map EXCEPT ![comp.ID].Releases = @ \o comp.Releases]
    ELSE Put(map, comp.ID, comp)

RECURSIVE MergeNew(_, _)
MergeNew(comps, map) ==
    IF comps = <<>> THEN map
    ELSE MergeNew(Tail(comps), MergeOne(map, Head(comps)))

ComponentMap(existing, new) ==
    MergeNew(new, IF existing = Nil THEN EmptyMap
                  ELSE SeedExisting(existing[1].Component, EmptyMap))

\* the derivation as it would be if it did not look at the Location first
EnsureLocationAlways(release) ==
    IF Len(release.Checksums) > 0
    THEN [release EXCEPT !.Location = release.Checksums[1].Filename \o ".cab"]
    ELSE release

\* a release without a Location gets the one of its first checksum
EnsureLocation(release) ==
    IF release.Location = "" /\ Len(release.Checksums) > 0
    THEN [release EXCEPT !.Location = release.Checksums[1].Filename \o ".cab"]
    ELSE release

EnsureLocations(comp) ==
    [comp EXCEPT !.Releases = [i \in DOMAIN comp.Releases |-> EnsureLocation(comp.Releases[i])]]

\* the orders in which a range over a Go map can visit its keys
MapOrders(keys) ==
    {o \in [1..Cardinality(keys) -> keys] : \A i, j \in DOMAIN o : i # j => o[i] # o[j]}

MergedDocument(map, order) ==
    Components([i \in DOMAIN order |-> EnsureLocations(map[order[i]])])

\* ------------------------------------------------------------------------
\* LoadMetadata, on the stored object and what the storage backend does
\* ------------------------------------------------------------------------
StorageFaults == {"none", "exists", "read"}

\* the load as it would be if the document and the index were assigned as
\* the stream is decoded, before the errors of the read are looked at
LoadResultAssignsEarly(obj, fault) ==
    LET fail(msg) == [err |-> msg, metadata |-> Nil, index |-> {}]
    IN  IF fault = "exists" THEN fail("failed to check metadata existence")
        ELSE IF obj = Absent THEN [err |-> NoError, metadata |-> Nil, index |-> {}]
        ELSE IF obj.kind # "zst" THEN fail("failed to read metadata file")
        ELSE IF obj.data.kind # "xml" THEN fail("failed to parse metadata XML")
        ELSE [err |-> IF fault = "read" THEN "failed to read metadata file" ELSE NoError,
              metadata |-> <<obj.data.doc>>,
              index |-> BuildIndex(obj.data.doc)]

\* the load as it would be without the existence check: a missing object
\* is a failed read
LoadResultNoExistenceCheck(obj, fault) ==
    IF fault = "none" /\ obj.kind = "zst" /\ obj.data.kind = "xml"
    THEN [err |-> NoError, metadata |-> <<obj.data.doc>>,
          index |-> BuildIndex(obj.data.doc)]
    ELSE [err |-> "failed to read metadata file", metadata |-> Nil, index |-> {}]

LoadResult(obj, fault) ==
    LET fail(msg) == [err |-> msg, metadata |-> Nil, index |-> {}]
    IN  IF fault = "exists" THEN fail("failed to check metadata existence")
        ELSE IF obj = Absent THEN [err |-> NoError, metadata |-> Nil, index |-> {}]
        ELSE IF fault = "read" THEN fail("failed to read metadata file")
        ELSE IF obj.kind # "zst" THEN fail("failed to read metadata file")
        ELSE IF obj.data.kind # "xml" THEN fail("failed to parse metadata XML")
        ELSE [err |-> NoError, metadata |-> <<obj.data.doc>>,
              index |-> BuildIndex(obj.data.doc)]

\* the lookup as it would be if the index were never consulted
InIndexNever(index, fwName) == FALSE

\* ProcessVendor: is the firmware already in the metadata index
InIndex(index, fwName) == fwName \in index

\* ------------------------------------------------------------------------
\* main: what the run driver does with the errors it is handed
\* ------------------------------------------------------------------------
\* a LoadMetadata error is logged, the run goes on to the vendors
AfterLoad(err) == "vendors"

\* the driver as it would be if a failed catalog ended the loop
AfterProcessVendorAbort(err) ==
    IF err \in FetchErrors THEN "save" ELSE "vendors"

\* a ProcessVendor error is logged, the loop goes on to the next vendor
AfterProcessVendor(err) == "vendors"

\* the loop as it would be if a failed entry ended it
AfterEntryFailureBreak(stage) == "break"

\* the check as it would be if the loop never looked at the context
CancelledNever(done) == FALSE

\* ProcessVendor, top of an iteration: has the run's context been cancelled
Cancelled(done) == done

\* the driver as it would be if its loop never looked at the context
ShutdownRequestedNever(done) == FALSE

\* main, top of the loop over the vendors: ctx.Err() != nil
ShutdownRequested(done) == done

\* the driver as it would be if a shutdown signal ended the process at once
AfterVendorLoopExitsOnCancel(done) == IF done THEN "done" ELSE "save"

\* main: the deferred save runs when main returns, however the loop ended
AfterVendorLoop(done) == "save"

\* the loop as it would be if a failed step were logged and the entry went on
\* to its next step
AfterEntryFailureProceed(stage) == "proceed"

\* ProcessVendor: a failed entry is logged, the loop goes on (continue)
AfterEntryFailure(stage) == "continue"

\* the steps of an iteration, in the order of the code
StepAfter(stage) ==
    CASE stage = "mkdir" -> "retrieve"
      [] stage = "retrieve" -> "convert"
      [] stage = "convert" -> "build"
      [] OTHER -> "entry"


\* ------------------------------------------------------------------------
\* utils.DownloadFile: http.Get with retries
\* ------------------------------------------------------------------------
maxRetries == 3

\* http.Get returned an error and no response: no status code
TransportError == 0

\* what one http.Get can answer: no response, or a response with a status
HttpOutcomes == {TransportError, 200, 204, 404, 429, 500, 503}

\* the test as it would be if no status were taken for a success
StatusOKNever(status) == FALSE

\* resp.StatusCode == http.StatusOK
StatusOK(status) == status = 200

\* the test as it would be if every status other than 200 were retried
RetryableAlways(status) == TRUE

\* retry on 5xx errors and rate limiting
Retryable(status) == status >= 500 \/ status = 429

\* the frame of a call that has made no request yet
NewDownload ==
    [attempt |-> 0, requests |-> 0, outcomes |-> <<>>, opened |-> 0, closed |-> 0,
     slept |-> 0, result |-> "running", err |-> NoError]

\* the end of an iteration that asked for another one: sleep, attempt++, and
\* the loop condition
Continue(frame) ==
    LET next == [frame EXCEPT !.slept = @ + frame.attempt + 1, !.attempt = @ + 1]
    IN  IF next.attempt <= maxRetries THEN next
        ELSE [next EXCEPT !.result = "error", !.err = "failed after 4 attempts"]

\* one iteration of the loop, on what http.Get answered
Iteration(frame, outcome) ==
    LET got == [frame EXCEPT !.requests = @ + 1, !.outcomes = Append(@, outcome)]
    IN  IF outcome = TransportError
        THEN IF got.attempt < maxRetries THEN Continue(got)
             ELSE [got EXCEPT !.result = "error", !.err = "failed after 4 attempts"]
        ELSE LET resp == [got EXCEPT !.opened = @ + 1]
             IN  IF StatusOK(outcome) THEN [resp EXCEPT !.result = "body"]
                 ELSE LET shut == [resp EXCEPT !.closed = @ + 1]
                      IN  IF Retryable(outcome) /\ shut.attempt < maxRetries
                          THEN Continue(shut)
                          ELSE [shut EXCEPT !.result = "error",
                                            !.err = "unexpected status code"]

\* ------------------------------------------------------------------------
\* State
\* ------------------------------------------------------------------------
VARIABLES
    catalogs,           \* upstream: what each vendor's catalog lists
    Config,             \* FirmirrorConfig: Certificate, PrivateKey
    stMeta,             \* Storage: the object metadata.xml.zst
    stSig,              \* Storage: the object metadata.xml.zst.jcat
    stCabs,             \* Storage: the keys of the cabinet objects
    wrk,                \* cache directory: what is in <filename>.wrk
    vendors,            \* FirmirrorSyncer.vendors (the registered names)
    existingMetadata,   \* FirmirrorSyncer.existingMetadata
    existingIndex,      \* FirmirrorSyncer.existingIndex
    newComponents,      \* FirmirrorSyncer.newComponents
    ctxDone,            \* the run's context is cancelled
    pc,                 \* where main() is
    todo,               \* main: the vendors the range has not visited yet
    vendor,             \* ProcessVendor: vendorName
    entries,            \* ProcessVendor: catalog.ListEntries()
    idx,                \* ProcessVendor: the entry the loop is at
    processed,          \* ProcessVendor: processed
    skipped,            \* ProcessVendor: skipped
    appstream,          \* ProcessVendor: the component of the current entry
    loadErr,            \* what LoadMetadata returned
    fetchRes,           \* what the last FetchCatalog returned
    pvErr,              \* what the last ProcessVendor returned
    saveErr,            \* what SaveMetadata returned
    run,                \* the number of this run
    attempts,           \* history: RetrieveFirmware calls of this ProcessVendor
    failures,           \* history: the stages entries of this ProcessVendor failed at
    pendingAtStart,     \* history: len(newComponents) when ProcessVendor began
    metaAtStart,        \* history: metadata.xml.zst when the run began
    health,             \* history: "clean", or what this run has met
    prevHealth,         \* history: the same of the previous run
    saveWrites,         \* history: the keys SaveMetadata gave to Storage.Write
    cacheFiles,         \* cache directory: the scratch files of SaveMetadata
    exitCode,           \* the status the process exits with
    handles,            \* the maps GetAllVendors has handed to its callers
    downloadPath,       \* HPEFirmwareEntry.downloadPath, of every listed entry
    convErr,            \* what ToAppstream returned to a caller of the package
    processedTotal,     \* history: the processed counts of this run, added up
    backend,            \* main: the storage backend the run was started with
    buildTrace,         \* history: the steps the last buildPackage went through
    dl                  \* utils.DownloadFile: the frame of a call

vars == <<catalogs, Config, stMeta, stSig, stCabs, wrk, vendors, existingMetadata,
          existingIndex, newComponents, ctxDone, pc, todo, vendor, entries, idx,
          processed, skipped, appstream, loadErr, fetchRes, pvErr, saveErr, run,
          attempts, failures, pendingAtStart, metaAtStart, health, prevHealth,
          saveWrites, cacheFiles, exitCode, handles, downloadPath, convErr, processedTotal, backend, buildTrace, dl>>

clientVars == <<handles, convErr>>

envVars == <<catalogs, Config, vendors, clientVars, backend, dl>>

storageVars == <<stMeta, stSig, stCabs>>

syncerVars == <<existingMetadata, existingIndex, newComponents>>

loopVars == <<vendor, entries, idx, processed, skipped, appstream, downloadPath>>

resultVars == <<loadErr, fetchRes, pvErr, saveErr>>

runHistory == <<metaAtStart, prevHealth, processedTotal>>

pvHistory == <<attempts, failures, pendingAtStart, buildTrace>>

exitVars == <<cacheFiles, exitCode>>

NotYet == "not returned"

\* the history of a run: "clean" when nothing failed; "failed" when only
\* entries failed; "broken" after a load, catalog or save failure or a
\* shutdown signal
Worse(h, event) == IF h = "broken" \/ event = "broken" THEN "broken" ELSE event

\* the signing options of a run: none given, the key missing, both given
Configs == {[Certificate |-> "", PrivateKey |-> ""],
            [Certificate |-> "cert.pem", PrivateKey |-> ""],
            [Certificate |-> "cert.pem", PrivateKey |-> "key.pem"]}

\* the storage backends main can build: the local directory, the S3 bucket
Backends == {"local", "s3"}

\* a call of the S3 backend made with a context that is already cancelled
\* returns the context's error; the local backend works on files and goes
\* through
RefusesCancelled(store, done) == store = "s3" /\ done

Init ==
    /\ catalogs \in Upstreams
    /\ Config \in Configs
    /\ backend \in Backends
    /\ stMeta \in InitialObjects
    /\ stSig = IF stMeta = Absent THEN Absent ELSE Jcat(stMeta, FALSE)
    /\ stCabs = IF stMeta = Compress(Marshal(LegacyDoc)) THEN {"legacy.cab"} ELSE {}
    /\ wrk = [f \in Files |-> {}]
    /\ vendors = Vendors
    /\ existingMetadata = Nil
    /\ existingIndex = {}
    /\ newComponents = <<>>
    /\ ctxDone = FALSE
    /\ pc = "load"
    /\ todo = {}
    /\ vendor = ""
    /\ entries = <<>>
    /\ idx = 0
    /\ processed = 0
    /\ skipped = 0
    /\ appstream = Nil
    /\ loadErr = NotYet
    /\ fetchRes = NotYet
    /\ pvErr = NotYet
    /\ saveErr = NotYet
    /\ run = 1
    /\ attempts = 0
    /\ failures = <<>>
    /\ pendingAtStart = 0
    /\ metaAtStart = stMeta
    /\ health = "clean"
    /\ prevHealth = "none"
    /\ saveWrites = {}
    /\ cacheFiles = {}
    /\ exitCode = NotYet
    /\ handles = <<>>
    /\ downloadPath = <<>>
    /\ convErr = NotYet
    /\ processedTotal = 0
    /\ buildTrace = <<>>
    /\ dl = NewDownload

\* ------------------------------------------------------------------------
\* main: LoadMetadata, then the loop over the registered vendors
\* ------------------------------------------------------------------------
\* a map value held by a caller: its own storage, or the registry's
MapHandle(shared, names) == [shared |-> shared, names |-> names]

\* the entries a caller sees through a handle
MapOf(handle, registry) == IF handle.shared THEN registry ELSE handle.names

\* the accessor as it would be if it returned the registry itself
GetAllVendorsNoClone(registry) == MapHandle(TRUE, {})

\* GetAllVendors: maps.Clone of the registry
GetAllVendors(registry) == MapHandle(FALSE, registry)

\* what Storage.Exists and Storage.Read can do, given the context LoadMetadata
\* hands them
LoadFaults(store, done) ==
    IF RefusesCancelled(store, done) THEN {"exists"} ELSE StorageFaults

LoadMetadata ==
    /\ pc = "load"
    /\ \E fault \in LoadFaults(backend, ctxDone) :
         LET res == LoadResult(stMeta, fault)
         IN  /\ existingMetadata' = res.metadata
             /\ existingIndex' = existingIndex \cup res.index
             /\ loadErr' = res.err
             /\ health' = IF res.err = NoError THEN health ELSE Worse(health, "broken")
             /\ pc' = AfterLoad(res.err)
    /\ todo' = MapOf(GetAllVendors(vendors), vendors)
    /\ UNCHANGED <<envVars, storageVars, wrk, newComponents, ctxDone, loopVars,
                   fetchRes, pvErr, saveErr, run, pvHistory, runHistory, saveWrites,
                   exitVars>>

\* the range is over, or a shutdown was requested: the deferred save is next
MainLoopExit ==
    /\ pc = "vendors"
    /\ todo = {} \/ ShutdownRequested(ctxDone)
    /\ pc' = AfterVendorLoop(ctxDone)
    /\ loadErr' = NotYet
    /\ fetchRes' = NotYet
    /\ pvErr' = NotYet
    /\ UNCHANGED <<envVars, storageVars, wrk, syncerVars, ctxDone, todo, loopVars,
                   saveErr, run, pvHistory, runHistory, health, saveWrites,
                   exitVars>>

\* ------------------------------------------------------------------------
\* ProcessVendor
\* ------------------------------------------------------------------------
\* main picks the next vendor of the range; ProcessVendor fetches its catalog
FetchCatalog ==
    /\ pc = "vendors"
    /\ todo # {}
    /\ ~ShutdownRequested(ctxDone)
    /\ \E v \in todo, res \in {NoError} \cup FetchErrors :
         /\ todo' = todo \ {v}
         /\ fetchRes' = res
         /\ IF res # NoError
            THEN /\ pvErr' = res
                 /\ pc' = AfterProcessVendor(res)
                 /\ health' = Worse(health, "broken")
                 /\ UNCHANGED <<vendor, entries, idx, pendingAtStart, downloadPath>>
            ELSE /\ vendor' = v
                 /\ entries' = catalogs[v]
                 /\ downloadPath' = [i \in DOMAIN catalogs[v] |-> ""]
                 /\ idx' = 1
                 /\ pc' = "entry"
                 /\ pvErr' = NotYet
                 /\ pendingAtStart' = Len(newComponents)
                 /\ UNCHANGED health
    /\ loadErr' = NotYet
    /\ UNCHANGED <<envVars, storageVars, wrk, syncerVars, ctxDone, processed, skipped,
                   appstream, saveErr, run, attempts, failures, buildTrace, runHistory,
                   saveWrites,
                   exitVars>>

fwName == GetFilename(entries[idx])

\* ProcessVendor is left: its locals are gone
LeaveProcessVendor(err) ==
    /\ pvErr' = err
    /\ pc' = AfterProcessVendor(err)
    /\ vendor' = ""
    /\ entries' = <<>>
    /\ downloadPath' = <<>>
    /\ idx' = 0
    /\ processed' = 0
    /\ skipped' = 0
    /\ attempts' = 0
    /\ failures' = <<>>
    /\ pendingAtStart' = 0
    /\ buildTrace' = <<>>
    /\ fetchRes' = NotYet
    /\ UNCHANGED <<envVars, storageVars, wrk, syncerVars, ctxDone, todo, appstream,
                   loadErr, saveErr, run, runHistory, health, saveWrites,
                   exitVars>>

\* the listing is exhausted: the counts are reported, nil is returned
ProcessVendorReturn ==
    /\ pc = "entry"
    /\ idx > Len(entries)
    /\ LeaveProcessVendor(NoError)

\* the top of an iteration sees the context done: ctx.Err() is returned
ProcessVendorCancelled ==
    /\ pc = "entry"
    /\ idx <= Len(entries)
    /\ Cancelled(ctxDone)
    /\ LeaveProcessVendor("context canceled")

\* an entry failed at `stage`: it is logged and the loop continues
EntryFailed(stage) ==
    /\ failures' = Append(failures, [at |-> idx, stage |-> stage])
    /\ health' = Worse(health, "failed")
    /\ pc' = IF AfterEntryFailure(stage) = "proceed" THEN StepAfter(stage) ELSE "entry"
    /\ idx' = CASE AfterEntryFailure(stage) = "continue" -> idx + 1
                [] AfterEntryFailure(stage) = "proceed" /\ StepAfter(stage) # "entry" -> idx
                [] AfterEntryFailure(stage) = "proceed" -> idx + 1
                [] OTHER -> Len(entries) + 1

SkipEntry ==
    /\ pc = "entry"
    /\ idx <= Len(entries)
    /\ ~Cancelled(ctxDone)
    /\ InIndex(existingIndex, fwName)
    /\ skipped' = skipped + 1
    /\ idx' = idx + 1
    /\ UNCHANGED <<envVars, storageVars, wrk, syncerVars, ctxDone, pc, todo, vendor,
                   entries, processed, appstream, downloadPath, resultVars, run, pvHistory,
                   runHistory, health, saveWrites,
                   exitVars>>

\* the entry is not in the index: its scratch directory is made
BeginEntry ==
    /\ pc = "entry"
    /\ idx <= Len(entries)
    /\ ~Cancelled(ctxDone)
    /\ ~InIndex(existingIndex, fwName)
    /\ \E ok \in BOOLEAN :
         IF ok
         THEN /\ wrk' = [wrk EXCEPT ![fwName] = @ \cup {"."}]
              /\ pc' = "retrieve"
              /\ UNCHANGED <<idx, failures, health>>
         ELSE /\ EntryFailed("mkdir")
              /\ UNCHANGED wrk
    /\ UNCHANGED <<envVars, storageVars, syncerVars, ctxDone, todo, vendor, entries,
                   processed, skipped, appstream, downloadPath, resultVars, run, attempts,
                   pendingAtStart, buildTrace, runHistory, saveWrites,
                   exitVars>>

\* what a successful RetrieveFirmware leaves on the entry: the HPE vendor
\* stores the path of the package, the Dell vendor stores nothing
Retrieved(vendorName, paths, i, fwFile) ==
    IF IsHPE(vendorName) THEN [paths EXCEPT ![i] = DownloadPathOf(fwFile)] ELSE paths

\* the removal as it would be if the scratch directory were left in place
RemoveAllSkipped(dirs, fwFile) == dirs

\* os.RemoveAll(tmpDir)
RemoveAll(dirs, fwFile) == [dirs EXCEPT ![fwFile] = {}]

\* vendor.RetrieveFirmware(entry, tmpDir); the vendors keep a file that is
\* already in tmpDir; on failure tmpDir is removed
RetrieveFirmware ==
    /\ pc = "retrieve"
    /\ attempts' = attempts + 1
    /\ \E ok \in BOOLEAN :
         IF ok
         THEN /\ wrk' = [wrk EXCEPT ![fwName] = @ \cup {"firmware"}]
              /\ downloadPath' = Retrieved(vendor, downloadPath, idx, fwName)
              /\ pc' = "convert"
              /\ UNCHANGED <<idx, failures, health>>
         ELSE /\ EntryFailed("retrieve")
              /\ wrk' = RemoveAll(wrk, fwName)
              /\ UNCHANGED downloadPath
    /\ UNCHANGED <<envVars, storageVars, syncerVars, ctxDone, todo, vendor, entries,
                   processed, skipped, appstream, resultVars, run, pendingAtStart,
                   buildTrace, runHistory, saveWrites,
                   exitVars>>

\* entry.ToAppstream(), and the source URL put on the component
ConvertEntry ==
    /\ pc = "convert"
    /\ \E readable \in BOOLEAN :
         LET res == EntryToAppstream(vendor, entries[idx], downloadPath[idx], readable)
         IN  IF res.err = NoError
             THEN /\ appstream' = <<AttachSourceURL(res.comp[1],
                                                    GetSourceURL(entries[idx]))>>
                  /\ pc' = "build"
                  /\ UNCHANGED <<idx, failures, health>>
             ELSE /\ EntryFailed("convert")
                  /\ UNCHANGED appstream
    /\ UNCHANGED <<envVars, storageVars, wrk, syncerVars, ctxDone, todo, vendor,
                   entries, processed, skipped, downloadPath, resultVars, run, attempts,
                   pendingAtStart, buildTrace, runHistory, saveWrites,
                   exitVars>>

\* buildPackage, by the step it returns from
BuildOutcomes == {"checksum", "metainfo", "cabinet", "open", "upload", "ok"}

\* what buildPackage would leave in tmpDir if it wrote the fragment after
\* the cabinet builder had run
BuiltFilesFragmentLast(outcome) ==
    CASE outcome \in {"checksum", "metainfo", "cabinet"} -> {}
      [] OTHER -> {"firmware.metainfo.xml", "cab"}

\* what buildPackage leaves in tmpDir
BuiltFiles(outcome) ==
    CASE outcome \in {"checksum", "metainfo"} -> {}
      [] outcome = "cabinet" -> {"firmware.metainfo.xml"}
      [] OTHER -> {"firmware.metainfo.xml", "cab"}

\* the steps buildPackage goes through before it returns: the digests, the
\* fragment, fwupdtool build-cabinet, os.Open of the cabinet, Storage.Write
BuildSteps(outcome) ==
    CASE outcome = "checksum" -> <<"checksum">>
      [] outcome = "metainfo" -> <<"checksum", "metainfo">>
      [] outcome = "cabinet" -> <<"checksum", "metainfo", "cabinet">>
      [] outcome = "open" -> <<"checksum", "metainfo", "cabinet", "open">>
      [] OTHER -> <<"checksum", "metainfo", "cabinet", "open", "write">>

\* the key as it would be if the cabinet were uploaded under its cache path
CabNameInWorkDir(fwFile) == fwFile \o ".wrk/" \o fwFile \o ".cab"

CabName(fwFile) == fwFile \o ".cab"

\* the returns buildPackage can make: Storage.Write gets the run's context
BuildOutcomesFor(store, done) ==
    IF RefusesCancelled(store, done) THEN BuildOutcomes \ {"ok"} ELSE BuildOutcomes

\* the return as it would be if a failed upload of the cabinet were only
\* logged
BuildErrorUploadIgnored(outcome) ==
    IF outcome \in {"ok", "upload"} THEN NoError ELSE "failed at " \o outcome

\* what buildPackage returns, by the step it returns from
BuildError(outcome) ==
    IF outcome = "ok" THEN NoError ELSE "failed at " \o outcome

\* the index as it would be if a processed filename were recorded in it
IndexAfterEntryRecorded(index, fwFile) == index \cup {fwFile}

\* the index after an entry was processed: the iteration does not assign it
IndexAfterEntry(index, fwFile) == index

\* buildPackage and, when it returns nil, the rest of the iteration: tmpDir
\* is removed, the component joins newComponents, processed is counted
BuildPackage ==
    /\ pc = "build"
    /\ \E outcome \in BuildOutcomesFor(backend, ctxDone) :
         /\ stCabs' = IF outcome = "ok" THEN stCabs \cup {CabName(fwName)} ELSE stCabs
         /\ buildTrace' = BuildSteps(outcome)
         /\ IF BuildError(outcome) = NoError
            THEN /\ wrk' = RemoveAll(wrk, fwName)
                 /\ newComponents' = Append(newComponents,
                                            AttachChecksums(appstream[1], fwName))
                 /\ processed' = processed + 1
                 /\ processedTotal' = processedTotal + 1
                 /\ existingIndex' = IndexAfterEntry(existingIndex, fwName)
                 /\ idx' = idx + 1
                 /\ pc' = "entry"
                 /\ UNCHANGED <<failures, health>>
            ELSE /\ EntryFailed("build")
                 /\ wrk' = [wrk EXCEPT ![fwName] = @ \cup BuiltFiles(outcome)]
                 /\ UNCHANGED <<newComponents, processed, processedTotal, existingIndex>>
    /\ appstream' = Nil
    /\ UNCHANGED <<envVars, stMeta, stSig, existingMetadata, ctxDone,
                   todo, vendor, entries, skipped, downloadPath, resultVars, run, attempts,
                   pendingAtStart, metaAtStart, prevHealth, saveWrites,
                   exitVars>>

\* ------------------------------------------------------------------------
\* SaveMetadata (deferred in main, on a context that cannot be cancelled)
\* ------------------------------------------------------------------------
SaveOutcomes == {"ok", "marshal", "tempfile", "compress", "self-sign", "sign",
                 "open metadata", "write metadata",
                 "open signature", "write signature"}

MetadataKey == "metadata.xml.zst"

SignatureKey == "metadata.xml.zst.jcat"

\* the test as it would be if the certificate alone decided
SignsWithCertificate(config) == config.Certificate # ""

\* signMetadata: the record is signed when certificate and key are both given
SignsWith(config) == config.Certificate # "" /\ config.PrivateKey # ""

\* the returns a configuration allows: jcat-tool signs only when
\* certificate and key are both given
SaveOutcomesFor(config) ==
    IF SignsWith(config) THEN SaveOutcomes ELSE SaveOutcomes \ {"sign"}

\* the errors as they would be if a failed upload of the record were only
\* logged
SaveErrorIgnoresSignature(outcome) ==
    CASE outcome \in {"ok", "open signature", "write signature"} -> NoError
      [] outcome \in {"open metadata", "write metadata"} ->
            "failed to write file to storage"
      [] OTHER -> "marshal, temporary file or compression failed"

\* the error SaveMetadata returns, by its outcome
SaveError(outcome) ==
    CASE outcome = "ok" -> NoError
      [] outcome \in {"open metadata", "open signature"} -> "failed to open file"
      [] outcome \in {"write metadata", "write signature"} ->
            "failed to write file to storage"
      [] outcome = "self-sign" -> "failed to create JCAT file with checksums"
      [] outcome = "sign" -> "failed to add signature to JCAT file"
      [] OTHER -> "marshal, temporary file or compression failed"

\* the scratch files of the cache directory
ScratchXml == "metadata.xml"

ScratchZst == "metadata.xml.zst"

ScratchJcat == "metadata.xml.zst.jcat"

\* the scratch files whose deferred os.Remove is registered when
\* SaveMetadata returns with this outcome
ScratchRemoved(outcome) ==
    CASE outcome \in {"marshal", "tempfile"} -> {}
      [] outcome = "compress" -> {ScratchXml}
      [] outcome \in {"self-sign", "sign"} -> {ScratchXml, ScratchZst}
      [] OTHER -> {ScratchXml, ScratchZst, ScratchJcat}

\* what the failing step can have created without a deferred os.Remove:
\* os.WriteFile may fail before or after it created the file, as may
\* compressMetadata and jcat-tool self-sign; jcat-tool sign fails on the
\* record self-sign has made
ScratchLeft(outcome) ==
    CASE outcome = "tempfile" -> {{}, {ScratchXml}}
      [] outcome = "compress" -> {{}, {ScratchZst}}
      [] outcome = "self-sign" -> {{}, {ScratchJcat}}
      [] outcome = "sign" -> {{ScratchJcat}}
      [] OTHER -> {{}}

\* main returns after the deferred save: the status the process exits with
ExitCode(err) == 0

\* the objects as they would be replaced if the document were uploaded as
\* soon as it is compressed, before the record is made
SaveStoresBeforeSigning(outcome) ==
    CASE outcome = "ok" -> {MetadataKey, SignatureKey}
      [] outcome \in {"self-sign", "sign", "open signature", "write signature"} ->
            {MetadataKey}
      [] OTHER -> {}

\* the objects SaveMetadata replaces in storage, by its outcome
SaveStores(outcome) ==
    CASE outcome = "ok" -> {MetadataKey, SignatureKey}
      [] outcome \in {"open signature", "write signature"} -> {MetadataKey}
      [] OTHER -> {}

\* the Storage.Write calls SaveMetadata makes, by its outcome
SaveCalls(outcome) ==
    CASE outcome \in {"ok", "write signature"} -> {MetadataKey, SignatureKey}
      [] outcome \in {"write metadata", "open signature"} -> {MetadataKey}
      [] OTHER -> {}

\* the check as it would be if an empty pending list were saved all the same
NothingToSaveNever(pending) == FALSE

\* no component was produced: the metadata update is skipped
NothingToSave(pending) == Len(pending) = 0

\* one call of SaveMetadata on the syncer
SaveMetadataCall ==
    /\ IF NothingToSave(newComponents)
       THEN /\ saveErr' = NoError
            /\ exitCode' = ExitCode(NoError)
            /\ UNCHANGED <<storageVars, saveWrites, health, cacheFiles>>
       ELSE LET map == ComponentMap(existingMetadata, newComponents)
            IN  \E order \in MapOrders(DOMAIN map),
                   outcome \in SaveOutcomesFor(Config) :
                  LET obj == Compress(Marshal(MergedDocument(map, order)))
                  IN  /\ \E left \in ScratchLeft(outcome) :
                            cacheFiles' = (cacheFiles \ ScratchRemoved(outcome)) \cup left
                      /\ exitCode' = ExitCode(SaveError(outcome))
                      /\ stMeta' = IF MetadataKey \in SaveStores(outcome)
                                   THEN obj ELSE stMeta
                      /\ stSig' = IF SignatureKey \in SaveStores(outcome)
                                  THEN Jcat(obj, SignsWith(Config)) ELSE stSig
                      /\ saveWrites' = SaveCalls(outcome)
                      /\ saveErr' = SaveError(outcome)
                      /\ health' = IF outcome = "ok" THEN health
                                    ELSE Worse(health, "broken")
                      /\ UNCHANGED stCabs
    /\ UNCHANGED <<envVars, wrk, syncerVars, ctxDone, todo, loopVars, loadErr,
                   fetchRes, pvErr, run, pvHistory, runHistory>>

\* main: the deferred call
SaveMetadata ==
    /\ pc = "save"
    /\ pc' = "done"
    /\ SaveMetadataCall

\* a caller of the package calls SaveMetadata once more on the same syncer
SaveMetadataAgain ==
    /\ pc = "done"
    /\ pc' = "saved twice"
    /\ SaveMetadataCall

\* ------------------------------------------------------------------------
\* The environment: the shutdown signal, the next run
\* ------------------------------------------------------------------------
Cancel ==
    /\ pc # "done"
    /\ ~ctxDone
    /\ ctxDone' = TRUE
    /\ health' = Worse(health, "broken")
    /\ UNCHANGED <<envVars, storageVars, wrk, syncerVars, pc, todo, loopVars,
                   resultVars, run, pvHistory, runHistory, saveWrites,
                   exitVars>>

\* the next invocation of the program: NewFirmirrorSyncer and RegisterVendor
\* for every enabled vendor, on the same storage and cache directory
NewRun ==
    /\ pc = "done"
    /\ run < MaxRuns
    /\ run' = run + 1
    /\ vendors' = Vendors
    /\ existingMetadata' = Nil
    /\ existingIndex' = {}
    /\ newComponents' = <<>>
    /\ ctxDone' = FALSE
    /\ pc' = "load"
    /\ todo' = {}
    /\ loadErr' = NotYet
    /\ fetchRes' = NotYet
    /\ pvErr' = NotYet
    /\ saveErr' = NotYet
    /\ pendingAtStart' = 0
    /\ metaAtStart' = stMeta
    /\ prevHealth' = health
    /\ processedTotal' = 0
    /\ health' = "clean"
    /\ saveWrites' = {}
    /\ exitCode' = NotYet
    /\ UNCHANGED <<catalogs, Config, backend, dl, storageVars, wrk, loopVars, attempts,
                   failures, buildTrace, cacheFiles, clientVars>>

Run ==
    \/ LoadMetadata
    \/ MainLoopExit
    \/ FetchCatalog
    \/ ProcessVendorReturn
    \/ ProcessVendorCancelled
    \/ SkipEntry
    \/ BeginEntry
    \/ RetrieveFirmware
    \/ ConvertEntry
    \/ BuildPackage
    \/ SaveMetadata
    \/ Cancel

\* one run of the program
Next == Run

Spec == Init /\ [][Next]_vars

\* several runs, one after the other, on the same storage and cache directory
InitRuns ==
    /\ Init
    /\ backend = "local"
    /\ SumLen(catalogs, Vendors) <= MaxListedRuns
    /\ stMeta \in {Absent, Compress(Marshal(LegacyDoc))}
    /\ SignsWith(Config)

NextRuns == Run \/ NewRun

SpecRuns == InitRuns /\ [][NextRuns]_vars

\* one run, and a second call of SaveMetadata after the deferred one
NextSaveTwice == Run \/ SaveMetadataAgain

SpecSaveTwice == InitRuns /\ [][NextSaveTwice]_vars

\* ------------------------------------------------------------------------
\* The package as a client uses it: the vendor registry, the entries of an
\* HPE listing
\* ------------------------------------------------------------------------
\* the keys a caller can put into a map it holds
ClientKeys == Vendors \cup {"other"}

\* the listing the client holds: an HPE catalog is a map, a filename is
\* listed once
ClientEntries == [i \in 1..NumFiles |-> FwNames[i]]

clientFrame ==
    <<catalogs, Config, backend, dl, storageVars, syncerVars, ctxDone, pc, todo, vendor, entries,
      idx, processed, skipped, resultVars, run, pvHistory, runHistory, health,
      saveWrites, exitVars>>

entryFrame == <<wrk, appstream, downloadPath, convErr>>

\* f.vendors[name] = vendor
RegisterVendor(name) ==
    /\ pc = "client"
    /\ vendors' = vendors \cup {name}
    /\ UNCHANGED <<handles, entryFrame, clientFrame>>

\* a caller asks for the registered vendors and keeps the map it gets
CallGetAllVendors ==
    /\ pc = "client"
    /\ Len(handles) < MaxHandles
    /\ handles' = Append(handles, GetAllVendors(vendors))
    /\ UNCHANGED <<vendors, entryFrame, clientFrame>>

\* a caller writes key into the map it holds: the write goes to the storage
\* behind the handle
ClientAdd(h, key) ==
    /\ pc = "client"
    /\ h \in DOMAIN handles
    /\ IF handles[h].shared
       THEN vendors' = vendors \cup {key} /\ UNCHANGED handles
       ELSE handles' = [handles EXCEPT ![h].names = @ \cup {key}] /\ UNCHANGED vendors
    /\ UNCHANGED <<entryFrame, clientFrame>>

\* delete(map, key) on a map a caller holds
ClientDelete(h, key) ==
    /\ pc = "client"
    /\ h \in DOMAIN handles
    /\ IF handles[h].shared
       THEN vendors' = vendors \ {key} /\ UNCHANGED handles
       ELSE handles' = [handles EXCEPT ![h].names = @ \ {key}] /\ UNCHANGED vendors
    /\ UNCHANGED <<entryFrame, clientFrame>>

\* HPEVendor.RetrieveFirmware(entry, tmpDir), called on entry i: a package
\* already in tmpDir is kept, else it is downloaded, which can fail; the
\* path is stored on the entry when the call returns nil
ClientRetrieveFirmware(i) ==
    /\ pc = "client"
    /\ i \in DOMAIN entries
    /\ \E ok \in BOOLEAN :
         IF ok \/ "firmware" \in wrk[entries[i]]
         THEN /\ wrk' = [wrk EXCEPT ![entries[i]] = @ \cup {".", "firmware"}]
              /\ downloadPath' = Retrieved(vendor, downloadPath, i, entries[i])
         ELSE UNCHANGED <<wrk, downloadPath>>
    /\ UNCHANGED <<vendors, handles, appstream, convErr, clientFrame>>

\* entry.ToAppstream(), called on entry i
ClientToAppstream(i) ==
    /\ pc = "client"
    /\ i \in DOMAIN entries
    /\ \E readable \in BOOLEAN :
         LET res == EntryToAppstream(vendor, entries[i], downloadPath[i], readable)
         IN  /\ appstream' = res.comp
             /\ convErr' = res.err
    /\ UNCHANGED <<vendors, handles, wrk, downloadPath, clientFrame>>

\* NewFirmirrorSyncer: no vendor registered, nothing loaded, nothing pending;
\* the client holds the entries an HPE catalog listed
InitClient ==
    /\ catalogs = [v \in Vendors |-> <<>>]
    /\ backend = "local"
    /\ Config = [Certificate |-> "", PrivateKey |-> ""]
    /\ stMeta = Absent
    /\ stSig = Absent
    /\ stCabs = {}
    /\ wrk = [f \in Files |-> {}]
    /\ vendors = {}
    /\ existingMetadata = Nil
    /\ existingIndex = {}
    /\ newComponents = <<>>
    /\ ctxDone = FALSE
    /\ pc = "client"
    /\ todo = {}
    /\ vendor = "hpe-gen10"
    /\ entries = ClientEntries
    /\ idx = 0
    /\ processed = 0
    /\ skipped = 0
    /\ appstream = Nil
    /\ loadErr = NotYet
    /\ fetchRes = NotYet
    /\ pvErr = NotYet
    /\ saveErr = NotYet
    /\ run = 1
    /\ attempts = 0
    /\ failures = <<>>
    /\ pendingAtStart = 0
    /\ metaAtStart = stMeta
    /\ health = "clean"
    /\ prevHealth = "none"
    /\ saveWrites = {}
    /\ cacheFiles = {}
    /\ exitCode = NotYet
    /\ handles = <<>>
    /\ downloadPath = [i \in DOMAIN ClientEntries |-> ""]
    /\ convErr = NotYet
    /\ processedTotal = 0
    /\ buildTrace = <<>>
    /\ dl = NewDownload

\* http.Get answers, and DownloadFile goes through one iteration of its loop
HttpGet(outcome) ==
    /\ pc = "download"
    /\ dl.result = "running"
    /\ dl' = Iteration(dl, outcome)
    /\ UNCHANGED <<catalogs, Config, vendors, clientVars, backend, storageVars, wrk,
                   syncerVars, ctxDone, pc, todo, loopVars, resultVars, run, pvHistory,
                   runHistory, health, saveWrites, exitVars>>

\* a caller is in DownloadFile(url), no request made yet
InitDownload ==
    /\ catalogs = [v \in Vendors |-> <<>>]
    /\ backend = "local"
    /\ Config = [Certificate |-> "", PrivateKey |-> ""]
    /\ stMeta = Absent
    /\ stSig = Absent
    /\ stCabs = {}
    /\ wrk = [f \in Files |-> {}]
    /\ vendors = {}
    /\ existingMetadata = Nil
    /\ existingIndex = {}
    /\ newComponents = <<>>
    /\ ctxDone = FALSE
    /\ pc = "download"
    /\ todo = {}
    /\ vendor = ""
    /\ entries = <<>>
    /\ idx = 0
    /\ processed = 0
    /\ skipped = 0
    /\ appstream = Nil
    /\ loadErr = NotYet
    /\ fetchRes = NotYet
    /\ pvErr = NotYet
    /\ saveErr = NotYet
    /\ run = 1
    /\ attempts = 0
    /\ failures = <<>>
    /\ pendingAtStart = 0
    /\ metaAtStart = stMeta
    /\ health = "clean"
    /\ prevHealth = "none"
    /\ saveWrites = {}
    /\ cacheFiles = {}
    /\ exitCode = NotYet
    /\ handles = <<>>
    /\ downloadPath = <<>>
    /\ convErr = NotYet
    /\ processedTotal = 0
    /\ buildTrace = <<>>
    /\ dl = NewDownload

NextDownload == \E outcome \in HttpOutcomes : HttpGet(outcome)

SpecDownload == InitDownload /\ [][NextDownload]_vars

NextClient ==
    \/ \E name \in Vendors : RegisterVendor(name)
    \/ CallGetAllVendors
    \/ \E h \in 1..MaxHandles, key \in ClientKeys : ClientAdd(h, key)
    \/ \E h \in 1..MaxHandles, key \in ClientKeys : ClientDelete(h, key)
    \/ \E i \in 1..NumFiles : ClientRetrieveFirmware(i)
    \/ \E i \in 1..NumFiles : ClientToAppstream(i)

SpecClient == InitClient /\ [][NextClient]_vars

\* ------------------------------------------------------------------------
\* Vocabulary of the properties
\* ------------------------------------------------------------------------
InPipeline == pc \in {"retrieve", "convert", "build"}

\* the components of the document a stored object decodes to
Decoded(obj) ==
    IF obj.kind = "zst" /\ obj.data.kind = "xml" THEN obj.data.doc.Component ELSE <<>>

\* the stored object is there and is not a document
Corrupted(obj) == obj # Absent /\ ~(obj.kind = "zst" /\ obj.data.kind = "xml")

\* the components LoadMetadata left in the syncer
PriorComponents ==
    IF existingMetadata = Nil THEN <<>> ELSE existingMetadata[1].Component

IDsOf(comps) == {comps[i].ID : i \in DOMAIN comps}

\* the releases a sequence of components holds under one identity, in order
RECURSIVE ReleasesOf(_, _)
ReleasesOf(comps, id) ==
    IF comps = <<>> THEN <<>>
    ELSE (IF Head(comps).ID = id THEN Head(comps).Releases ELSE <<>>)
         \o ReleasesOf(Tail(comps), id)

\* what a release is, whatever its Location
ReleaseKey(release) == <<release.Version, release.Checksums>>

ReleaseKeys(releases) == {ReleaseKey(releases[i]) : i \in DOMAIN releases}

\* SaveMetadata had components to save and returned nil
SavedOK == pc = "done" /\ newComponents # <<>> /\ saveErr = NoError

\* ------------------------------------------------------------------------
\* C1
\* ------------------------------------------------------------------------
\* C1: the index is the one LoadMetadata built from the loaded document; an
\* entry whose filename is in it never reaches RetrieveFirmware, ToAppstream
\* or buildPackage, and skipped counts exactly the entries visited so far
\* whose filename is in it.
C1_SkipInvariant ==
    /\ pc # "load" =>
          existingIndex = IF existingMetadata = Nil THEN {}
                          ELSE BuildIndex(existingMetadata[1])
    /\ InPipeline => fwName \notin existingIndex
    /\ (pc = "entry" \/ InPipeline) =>
          skipped = Cardinality({i \in 1..(idx - 1) : entries[i] \in existingIndex})

\* a listing with an indexed entry, skipped, and another one, processed
C1_Witness ==
    /\ pc = "entry"
    /\ skipped >= 1
    /\ processed >= 1
    /\ \E i \in 1..(idx - 1) : entries[i] \in existingIndex

C3_MergeIsUnion ==
    SavedOK =>
        \A id \in IDsOf(PriorComponents) \cap IDsOf(newComponents) :
            LET out == ReleasesOf(Decoded(stMeta), id)
                src == ReleasesOf(PriorComponents, id) \o ReleasesOf(newComponents, id)
            IN  /\ ReleaseKeys(out) = ReleaseKeys(src)
                /\ \A i, j \in DOMAIN out :
                      i # j => ReleaseKey(out[i]) # ReleaseKey(out[j])

\* ------------------------------------------------------------------------
\* C4
\* ------------------------------------------------------------------------
\* C4: at the end of a run, every release of every component of the
\* document that was stored when the run began is in the stored document,
\* under the same identity.
C4_NoDataLoss ==
    pc = "done" =>
        \A id \in IDsOf(Decoded(metaAtStart)) :
            ReleaseKeys(ReleasesOf(Decoded(metaAtStart), id))
                \subseteq ReleaseKeys(ReleasesOf(Decoded(stMeta), id))

\* ------------------------------------------------------------------------
\* C5
\* ------------------------------------------------------------------------
\* C5: when the stored object is there and cannot be decoded, the run does
\* not go on as a first run: no entry is sent down the pipeline, nothing
\* becomes pending, the stored object is not replaced.
C5_CorruptionIsFatal ==
    (Corrupted(metaAtStart) /\ pc # "load") =>
        /\ ~InPipeline
        /\ newComponents = <<>>
        /\ stMeta = metaAtStart

\* ------------------------------------------------------------------------
\* C6
\* ------------------------------------------------------------------------
\* C6: when nothing is stored under the metadata key, LoadMetadata, once the
\* storage has answered its existence check, returns nil; the syncer holds
\* no document and an empty index, so no entry is ever skipped.
C6_FirstRun ==
    (metaAtStart = Absent /\ pc # "load") =>
        /\ loadErr \in {NotYet, NoError, "failed to check metadata existence"}
        /\ existingMetadata = Nil
        /\ existingIndex = {}
        /\ \A f \in Files : ~InIndex(existingIndex, f)
        /\ skipped = 0

\* LoadMetadata has just returned nil on an empty storage, with entries to do
C6_Witness ==
    /\ metaAtStart = Absent
    /\ pc = "vendors"
    /\ loadErr = NoError
    /\ existingMetadata = Nil
    /\ \E v \in todo : Len(catalogs[v]) > 0

\* ------------------------------------------------------------------------
\* C7
\* ------------------------------------------------------------------------
\* C7: at the end of a listing every entry is counted once, as processed,
\* skipped or failed; when exactly one entry failed and none was skipped,
\* all the others were processed and appended to the pending list, and every
\* entry was handed to RetrieveFirmware unless the one that failed did so
\* before; and ProcessVendor then returns nil to the driver.
C7_EntryIsolation ==
    [][(pc = "entry" /\ idx > Len(entries)) =>
          /\ processed + skipped + Len(failures) = Len(entries)
          /\ Len(newComponents) - pendingAtStart = processed
          /\ (Len(failures) = 1 /\ skipped = 0) =>
                /\ processed = Len(entries) - 1
                /\ Len(newComponents) - pendingAtStart = Len(entries) - 1
                /\ attempts = IF failures[1].stage = "mkdir" THEN Len(entries) - 1
                              ELSE Len(entries)
          /\ pc' # pc => (pvErr' = NoError /\ pc' = "vendors")
      ]_vars

\* two entries, the first failed at retrieval, the second was processed
C7_Witness ==
    /\ pc = "entry"
    /\ idx > Len(entries)
    /\ Len(entries) >= 2
    /\ skipped = 0
    /\ Len(failures) = 1
    /\ failures[1].at = 1
    /\ failures[1].stage = "retrieve"
    /\ processed = Len(entries) - 1
    /\ attempts = Len(entries)

\* ------------------------------------------------------------------------
\* C8
\* ------------------------------------------------------------------------
\* C8: the step in which FetchCatalog fails for a vendor hands that very
\* error to the driver, retrieves nothing, leaves the pending list, the
\* storage and the cache as they were, and leaves the driver in its loop
\* with the other vendors still to visit.
C8_CatalogFailureIsVendorScoped ==
    [][(pc = "vendors" /\ todo' # todo /\ fetchRes' \in FetchErrors) =>
          /\ pvErr' = fetchRes'
          /\ UNCHANGED <<newComponents, existingMetadata, existingIndex,
                         storageVars, wrk, attempts>>
          /\ pc' = "vendors"
          /\ \E v \in todo : todo' = todo \ {v}
      ]_vars

\* a catalog has just failed, its error is with the driver, and a vendor
\* with entries is still to visit
C8_Witness ==
    /\ pc = "vendors"
    /\ fetchRes \in FetchErrors
    /\ pvErr = fetchRes
    /\ todo # {}
    /\ ~ctxDone
    /\ \E v \in todo : Len(catalogs[v]) > 0

\* ------------------------------------------------------------------------
\* C9
\* ------------------------------------------------------------------------
\* C9: SaveMetadata on an empty pending list returns nil, calls
\* Storage.Write for nothing and leaves every stored object as it was.
C9_NoOpSave ==
    [][(pc = "save" /\ pc' = "done" /\ newComponents = <<>>) =>
          /\ saveErr' = NoError
          /\ saveWrites' = {}
          /\ UNCHANGED storageVars
      ]_vars

\* a run whose entries all failed: nothing pending, a document left alone
C9_Witness ==
    /\ pc = "done"
    /\ newComponents = <<>>
    /\ health = "failed"
    /\ saveErr = NoError
    /\ saveWrites = {}
    /\ stMeta = Compress(Marshal(LegacyDoc))

\* ------------------------------------------------------------------------
\* C10
\* ------------------------------------------------------------------------
\* C10: in the document SaveMetadata publishes, each component holds the
\* releases of the loaded document and of the pending list, in that order;
\* a release that came without a Location has the filename of its first
\* checksum followed by ".cab", a release that came with one has kept it.
C10_LocationDerivation ==
    SavedOK =>
        \A id \in IDsOf(Decoded(stMeta)) :
            LET out == ReleasesOf(Decoded(stMeta), id)
                src == ReleasesOf(PriorComponents, id) \o ReleasesOf(newComponents, id)
            IN  /\ Len(out) = Len(src)
                /\ \A i \in DOMAIN out :
                      /\ ReleaseKey(out[i]) = ReleaseKey(src[i])
                      /\ out[i].Location =
                            IF src[i].Location # "" THEN src[i].Location
                            ELSE IF Len(src[i].Checksums) > 0
                                 THEN src[i].Checksums[1].Filename \o ".cab"
                                 ELSE ""

\* a published component with a release that kept its Location and a
\* release whose Location was derived
C10_Witness ==
    /\ SavedOK
    /\ \E c \in Range(Decoded(stMeta)) :
          /\ \E r \in Range(c.Releases) :
                r.Location = "legacy.cab" /\ r.Checksums[1].Filename = "legacy.cab"
          /\ \E r \in Range(c.Releases) :
                r.Location = "b.bin.cab" /\ r \notin Range(ReleasesOf(newComponents, c.ID))

\* ------------------------------------------------------------------------
\* C11
\* ------------------------------------------------------------------------
\* C11: no run ends without SaveMetadata having returned, and SaveMetadata
\* can always be executed when the driver reaches it, shutdown signal or
\* not; when it succeeds after a shutdown signal, every release of every
\* pending component is in the stored document under its component's ID.
C11_SaveSurvivesCancellation ==
    /\ pc = "done" => saveErr # NotYet
    /\ pc = "save" => ENABLED SaveMetadata
    /\ (ctxDone /\ SavedOK) =>
          \A i \in DOMAIN newComponents :
              ReleaseKeys(newComponents[i].Releases) \subseteq
                  ReleaseKeys(ReleasesOf(Decoded(stMeta), newComponents[i].ID))

\* a run cut short by the signal, a vendor never visited, and its pending
\* components published
C11_Witness ==
    /\ ctxDone
    /\ SavedOK
    /\ todo # {}
    /\ stMeta # metaAtStart

\* ------------------------------------------------------------------------
\* C12
\* ------------------------------------------------------------------------
\* C12: at the top of an iteration with the context cancelled, the only step
\* is the return of the cancellation error, with the pending list, the
\* storage and the cache untouched; no entry is begun and no vendor is
\* fetched once the context is cancelled.
C12_CooperativeCancellation ==
    [][/\ (pc = "entry" /\ idx <= Len(entries) /\ ctxDone) =>
            /\ pvErr' = "context canceled"
            /\ pc' = "vendors"
            /\ UNCHANGED <<newComponents, storageVars, wrk, todo>>
       /\ (pc = "entry" /\ pc' = "retrieve") => ~ctxDone
       /\ (pc = "entry" /\ skipped' # skipped /\ pc' = "entry") => ~ctxDone
       /\ (pc = "vendors" /\ ctxDone) => pc' # "entry"
      ]_vars

\* ProcessVendor has just returned the cancellation error with a component
\* pending and entries of its listing not visited
C12_Witness ==
    /\ pc = "vendors"
    /\ pvErr = "context canceled"
    /\ ctxDone
    /\ newComponents # <<>>

\* ------------------------------------------------------------------------
\* C13
\* ------------------------------------------------------------------------
\* C13: a successful SaveMetadata has handed both the document and its
\* record to Storage.Write, and the stored record covers the stored document
\* and is signed exactly when certificate and key are both configured; the
\* signing step fails only when both are configured; and without one of them
\* SaveMetadata can still succeed.
C13_AbsentCredentialsAreNoFailure ==
    LET both == Config.Certificate # "" /\ Config.PrivateKey # ""
    IN  /\ SavedOK =>
              /\ saveWrites = {MetadataKey, SignatureKey}
              /\ stSig = Jcat(stMeta, both)
        /\ (pc = "done" /\ saveErr = "failed to add signature to JCAT file") => both
        /\ (pc = "save" /\ newComponents # <<>> /\ ~both) =>
              ENABLED (SaveMetadata /\ saveErr' = NoError)

\* a successful save with a certificate and no key: an unsigned record
C13_Witness ==
    /\ SavedOK
    /\ Config.Certificate # ""
    /\ Config.PrivateKey = ""
    /\ stSig = Jcat(stMeta, FALSE)
    /\ stMeta # metaAtStart

\* ------------------------------------------------------------------------
\* C14
\* ------------------------------------------------------------------------
\* C14: a SaveMetadata that had components to save returns nil only when it
\* handed both keys to Storage.Write and both objects were stored: the
\* stored document is the new one and the stored record covers it.  So a
\* failed write of either object is an error returned.
C14_PublishFailureIsSurfaced ==
    [][(pc = "save" /\ pc' = "done" /\ newComponents # <<>> /\ saveErr' = NoError) =>
          /\ saveWrites' = {MetadataKey, SignatureKey}
          /\ stMeta' # stMeta
          /\ Decoded(stMeta') # <<>>
          /\ stSig' = Jcat(stMeta', SignsWith(Config))
      ]_vars

\* the write of the record failed after the document was stored: an error
C14_Witness ==
    /\ pc = "done"
    /\ saveWrites = {MetadataKey, SignatureKey}
    /\ stMeta # metaAtStart
    /\ (stSig = Absent \/ stSig.covers # stMeta)
    /\ saveErr = "failed to write file to storage"

\* ------------------------------------------------------------------------
\* C15
\* ------------------------------------------------------------------------
\* C15: when the run has ended, the process exits with a non-zero status
\* exactly when SaveMetadata returned an error.
C15_ExitCodeFollowsPublish ==
    pc = "done" => ((exitCode # 0) <=> (saveErr # NoError))

\* ------------------------------------------------------------------------
\* C16
\* ------------------------------------------------------------------------
\* C16: when a SaveMetadata that had components to save has returned, none
\* of its three scratch files is in the cache directory.
C16_ScratchFilesRemoved ==
    (pc = "done" /\ newComponents # <<>>) =>
        cacheFiles \cap {ScratchXml, ScratchZst, ScratchJcat} = {}

\* ------------------------------------------------------------------------
\* C17
\* ------------------------------------------------------------------------
\* C17: when LoadMetadata has succeeded on a stored document, the syncer
\* holds the components of that document in their order, and the index is
\* exactly the non-empty filenames of all the checksums of all the releases
\* of all its components.
C17_IndexConstruction ==
    LET comps == Decoded(metaAtStart)
        sums == UNION {UNION {Range(comps[i].Releases[j].Checksums) :
                                j \in DOMAIN comps[i].Releases} :
                         i \in DOMAIN comps}
        loaded == existingMetadata # Nil
    IN  /\ (pc = "vendors" /\ loadErr = NoError /\ metaAtStart # Absent) => loaded
        /\ (pc # "load" /\ loaded) =>
              /\ existingMetadata[1].Component = comps
              /\ existingIndex = {ck.Filename : ck \in sums} \ {""}

\* a loaded document whose release has a first checksum that names the
\* cabinet, a second that names the firmware and a third without a filename
C17_Witness ==
    /\ pc = "vendors"
    /\ loadErr = NoError
    /\ existingMetadata # Nil
    /\ existingIndex = {"legacy.cab", "a.bin"}
    /\ \E c \in Range(existingMetadata[1].Component) :
          \E r \in Range(c.Releases) :
              \E i \in DOMAIN r.Checksums : i > 1 /\ r.Checksums[i].Filename = ""

\* ------------------------------------------------------------------------
\* C18
\* ------------------------------------------------------------------------
\* C18: after a successful SaveMetadata a fresh LoadMetadata on the storage
\* succeeds, and its index holds the filename of every entry processed in
\* the run and every filename of the run's own index; storage holds the
\* cabinet <filename>.cab of every entry processed in the run.
C18_PublishReloadRoundTrip ==
    SavedOK =>
        LET fresh == LoadResult(stMeta, "none")
            S == UNION {UNION {{ck.Filename : ck \in Range(rel.Checksums)} :
                                 rel \in Range(newComponents[i].Releases)} :
                          i \in DOMAIN newComponents}
        IN  /\ fresh.err = NoError
            /\ S \cup existingIndex \subseteq fresh.index
            /\ \A f \in S : (f \o ".cab") \in stCabs

\* b.bin was processed beside a loaded document that lists a.bin
C18_Witness ==
    /\ SavedOK
    /\ "a.bin" \in existingIndex
    /\ \E i \in DOMAIN newComponents :
          newComponents[i].Releases[1].Checksums[1].Filename = "b.bin"
    /\ {"a.bin", "b.bin"} \subseteq LoadResult(stMeta, "none").index
    /\ "b.bin.cab" \in stCabs

\* ------------------------------------------------------------------------
\* C19
\* ------------------------------------------------------------------------
\* the releases of a sequence of components, one after the other
RECURSIVE AllReleases(_)
AllReleases(comps) ==
    IF comps = <<>> THEN <<>> ELSE Head(comps).Releases \o AllReleases(Tail(comps))

\* C19: in the document a successful SaveMetadata stored, no two releases,
\* of one component or of two, have the same first checksum filename.
C19_ReleaseUniqueness ==
    SavedOK =>
        LET all == AllReleases(Decoded(stMeta))
        IN  \A i, j \in DOMAIN all :
              (i # j /\ Len(all[i].Checksums) > 0 /\ Len(all[j].Checksums) > 0) =>
                  all[i].Checksums[1].Filename # all[j].Checksums[1].Filename

\* ------------------------------------------------------------------------
\* C20
\* ------------------------------------------------------------------------
\* C20: whenever the stored document is one SaveMetadata wrote, the stored
\* record is a record made over that very document.
C20_SignatureAccompaniesDocument ==
    stMeta \notin InitialObjects =>
        /\ stSig # Absent
        /\ stSig.covers = stMeta

\* ------------------------------------------------------------------------
\* C21
\* ------------------------------------------------------------------------
\* the two records buildPackage makes of a blob: sha1 then sha256, both of
\* target "content", both named after the entry
IsBlobChecksums(sums, name) ==
    /\ Len(sums) = 2
    /\ \A k \in 1..2 : sums[k].Filename = name /\ sums[k].Target = "content"
    /\ sums[1].Type = "sha1" /\ sums[1].Value = calculateChecksums(name).sha1
    /\ sums[2].Type = "sha256" /\ sums[2].Value = calculateChecksums(name).sha256

C22_GetAllVendorsReturnsCopy ==
    [][/\ \A h \in 1..MaxHandles, key \in ClientKeys :
            (ClientAdd(h, key) \/ ClientDelete(h, key)) => vendors' = vendors
       /\ \A name \in Vendors :
            RegisterVendor(name) => name \in MapOf(GetAllVendors(vendors'), vendors')]_vars

\* a caller emptied the map it got while a vendor is registered
C22_Witness ==
    /\ pc = "client"
    /\ vendors # {}
    /\ \E h \in DOMAIN handles : MapOf(handles[h], vendors) = {}
    /\ \E h \in DOMAIN handles : "other" \in MapOf(handles[h], vendors)

\* ------------------------------------------------------------------------
\* C23
\* ------------------------------------------------------------------------
\* C23: ToAppstream on an HPE entry for which no RetrieveFirmware has
\* succeeded returns an error and no component; a RetrieveFirmware that
\* succeeds stores on the entry the path of the package in the scratch
\* directory, and a ToAppstream that returns a component has read the
\* package at the stored path.
C23_PrematureConversionFails ==
    [][\A i \in 1..NumFiles :
          /\ (ClientToAppstream(i) /\ "firmware" \notin wrk[entries[i]]) =>
                (convErr' # NoError /\ appstream' = Nil)
          /\ (ClientRetrieveFirmware(i) /\ "firmware" \in wrk'[entries[i]]) =>
                downloadPath'[i] = DownloadPathOf(entries[i])
          /\ (ClientToAppstream(i) /\ convErr' = NoError) =>
                /\ appstream' # Nil
                /\ downloadPath[i] = DownloadPathOf(entries[i])
                /\ "firmware" \in wrk[entries[i]]]_vars

\* an entry converted after its retrieval, after a premature conversion of
\* another entry failed
C23_Witness ==
    /\ pc = "client"
    /\ downloadPath[1] # ""
    /\ downloadPath[2] = ""
    /\ convErr = "firmware must be retrieved first using RetrieveFirmware"
    /\ appstream = Nil

C23_WitnessConverted ==
    /\ pc = "client"
    /\ downloadPath[1] # ""
    /\ convErr = NoError
    /\ appstream # Nil

\* ------------------------------------------------------------------------
\* C24
\* ------------------------------------------------------------------------
\* C24: within ProcessVendor, ToAppstream is reached only from a
\* RetrieveFirmware that was called and returned nil, buildPackage only from
\* a ToAppstream that returned a component, RetrieveFirmware only from the
\* top of an iteration; while an entry is at one of its steps the loop stays
\* on that entry, and the loop moves from an entry to the next one of the
\* listing only.
C24_StepOrdering ==
    [][/\ (pc' = "convert" /\ pc # "convert") =>
             /\ pc = "retrieve"
             /\ attempts' = attempts + 1
             /\ "firmware" \in wrk'[fwName]
       /\ (pc' = "build" /\ pc # "build") =>
             /\ pc = "convert"
             /\ appstream' # Nil
       /\ (pc' = "retrieve" /\ pc # "retrieve") =>
             /\ pc = "entry"
             /\ appstream = Nil
       /\ (pc \in {"retrieve", "convert", "build"} /\ pc' # "entry") =>
             (idx' = idx /\ entries' = entries)
       /\ (pc \in {"entry", "retrieve", "convert", "build"} /\ idx' # idx) =>
             (idx' = idx + 1 \/ (idx' = 0 /\ pc' = "vendors"))]_vars

\* the second entry of a listing is at buildPackage after the first one
\* failed at its conversion
C24_Witness ==
    /\ pc = "build"
    /\ idx = 2
    /\ appstream # Nil
    /\ failures = <<[at |-> 1, stage |-> "convert"]>>

\* ------------------------------------------------------------------------
\* C25
\* ------------------------------------------------------------------------
\* the cabinet key of a pending component: its first checksum's filename
PendingCab(comp) == CabName(comp.Releases[1].Checksums[1].Filename)

\* C25: every pending component has its cabinet in storage, there are as
\* many pending components as the ProcessVendor calls of the run have
\* counted as processed, and a step in which an entry fails, at whatever
\* stage, leaves the pending list as it was.
C25_PendingOnlyPublished ==
    /\ [](/\ Len(newComponents) = processedTotal
          /\ pc \in {"entry", "retrieve", "convert", "build"} =>
                Len(newComponents) = pendingAtStart + processed
          /\ \A i \in DOMAIN newComponents : PendingCab(newComponents[i]) \in stCabs)
    /\ [][/\ Len(failures') > Len(failures) => newComponents' = newComponents
          /\ newComponents' # newComponents =>
                (pc = "build" \/ (pc = "done" /\ newComponents' = <<>>))]_vars

\* a component is pending after entries failed at the upload and earlier
C25_Witness ==
    /\ Len(newComponents) = 1
    /\ Len(failures) = 1
    /\ failures[1].stage = "build"
    /\ processed = 1
    /\ stCabs = {PendingCab(newComponents[1])}

\* ------------------------------------------------------------------------
\* C26
\* ------------------------------------------------------------------------
\* C26: an entry that is at buildPackage when the run's context is cancelled
\* can still complete as it could without the cancellation: its cabinet can
\* be uploaded and its component appended to the pending list.
C26_InFlightNotInterrupted ==
    (pc = "build" /\ ctxDone) =>
        ENABLED (BuildPackage /\ Len(newComponents') = Len(newComponents) + 1)

\* ------------------------------------------------------------------------
\* C27
\* ------------------------------------------------------------------------
\* ProcessVendor is about to return: the listing is exhausted, or the top
\* of an iteration sees the cancellation
Returning == pc = "entry" /\ (idx > Len(entries) \/ Cancelled(ctxDone))

\* the stage entry i of the listing failed at; "none" when it did not fail
FailStage(i) ==
    IF \E k \in DOMAIN failures : failures[k].at = i
    THEN failures[CHOOSE k \in DOMAIN failures : failures[k].at = i].stage
    ELSE "none"

\* the entries of this ProcessVendor whose scratch directory was made
Worked == {i \in 1..(idx - 1) : ~InIndex(existingIndex, entries[i]) /\ FailStage(i) # "mkdir"}

\* entry i failed at its retrieval, or was processed successfully
Cleaned(i) == FailStage(i) \in {"retrieve", "none"}

Went(trace, step) == \E k \in DOMAIN trace : trace[k] = step

\* C28: in every buildPackage the fragment firmware.metainfo.xml is written
\* before the cabinet builder is invoked, so that it is in the scratch
\* directory when the entry fails at the builder or later; Storage.Write is
\* reached only past a builder that succeeded, and only then does storage
\* get a cabinet; a buildPackage that fails at the digests writes nothing
\* into the scratch directory.
C28_AssemblyOrdering ==
    [][pc = "build" /\ pc' = "entry" =>
          LET t == buildTrace'
              failed == Len(failures') > Len(failures)
          IN  /\ t # <<>> /\ t[1] = "checksum"
              /\ (failed /\ t[Len(t)] = "checksum") => wrk'[fwName] = wrk[fwName]
              /\ \A k \in DOMAIN t : t[k] = "cabinet" => (k > 1 /\ t[k - 1] = "metainfo")
              /\ (failed /\ Went(t, "cabinet")) =>
                    "firmware.metainfo.xml" \in wrk'[fwName]
              /\ \A k \in DOMAIN t :
                    t[k] = "write" => \E c \in 1..(k - 1) : t[c] = "cabinet"
              /\ stCabs' # stCabs => (Went(t, "write") /\ ~failed)]_vars

\* the builder failed on an entry and the fragment is in its scratch
\* directory, without a cabinet
C28_Witness ==
    /\ pc = "entry"
    /\ buildTrace = <<"checksum", "metainfo", "cabinet">>
    /\ \E f \in Files : wrk[f] = {".", "firmware", "firmware.metainfo.xml"}
    /\ stCabs = {}

\* ------------------------------------------------------------------------
\* C29
\* ------------------------------------------------------------------------
\* C29: a second SaveMetadata on the same syncer hands nothing to
\* Storage.Write and leaves the stored document and record as the first
\* call left them.
C29_SecondSaveIsNoOp ==
    [][(pc = "done" /\ pc' = "saved twice") =>
          (saveWrites' = {} /\ stMeta' = stMeta /\ stSig' = stSig)]_vars

\* ------------------------------------------------------------------------
\* C30
\* ------------------------------------------------------------------------
\* the place of an identity in the sorted list of the identities
IDRank(id) == IF id = "com.dell.x" THEN 1 ELSE 2

\* C30: whatever order the range over the component map takes, SaveMetadata
\* builds the same document from the same loaded document and pending list,
\* and the document it stores has its components sorted by identity.
C30_DeterministicOrder ==
    /\ (pc = "save" /\ ~NothingToSave(newComponents)) =>
          LET map == ComponentMap(existingMetadata, newComponents)
          IN  \A o1, o2 \in MapOrders(DOMAIN map) :
                 MergedDocument(map, o1) = MergedDocument(map, o2)
    /\ SavedOK =>
          LET comps == Decoded(stMeta)
          IN  \A i, j \in DOMAIN comps :
                 i < j => IDRank(comps[i].ID) < IDRank(comps[j].ID)

\* ------------------------------------------------------------------------
\* C31
\* ------------------------------------------------------------------------
\* C31: the run goes from LoadMetadata to the loop over the vendors, a
\* vendor is started only from the top of that loop (no other vendor in
\* progress) and only when the context is not cancelled, SaveMetadata is
\* reached only from the top of the loop, the run ends only through
\* SaveMetadata, and once the vendors are registered the run can always go
\* on until SaveMetadata has returned.
C31_RunDriverOrdering ==
    /\ [](/\ pc \in {"load", "vendors", "entry", "retrieve", "convert", "build",
                      "save", "done"}
          /\ pc = "load" => ENABLED LoadMetadata
          /\ pc = "vendors" => (ENABLED MainLoopExit \/ ENABLED FetchCatalog)
          /\ pc = "save" => (ENABLED SaveMetadata /\ saveErr = NotYet)
          /\ pc = "done" => saveErr # NotYet
          /\ pc = "load" => (todo = {} /\ newComponents = <<>>))
    /\ [][/\ pc = "load" => pc' \in {"load", "vendors"}
          /\ todo' # todo =>
                \/ pc = "load" /\ pc' = "vendors"
                \/ /\ pc = "vendors"
                   /\ ~ctxDone
                   /\ entries = <<>>
                   /\ \E v \in todo : todo' = todo \ {v}
          /\ (pc' = "save" /\ pc # "save") => (pc = "vendors" /\ entries = <<>>)
          /\ (pc' = "done" /\ pc # "done") => pc = "save"
          /\ pc = "done" => pc' = "done"]_vars

\* a run ended by a shutdown signal: a vendor was never started, and
\* SaveMetadata has returned
C31_Witness ==
    /\ pc = "done"
    /\ ctxDone
    /\ todo # {}
    /\ newComponents # <<>>
    /\ saveErr = NoError

\* ------------------------------------------------------------------------
\* C32
\* ------------------------------------------------------------------------
\* an answer after which DownloadFile asks again, attempts permitting
Failing(outcome) == outcome = TransportError \/ outcome >= 500 \/ outcome = 429

\* C32: DownloadFile makes at most maxRetries + 1 = 4 requests, and has
\* returned once it made 4; when all the answers are transport errors or
\* retryable statuses it returns an error, after exactly 4 requests; it
\* returns the body on the first answer of 200, and only then.
C32_RetryBound ==
    /\ maxRetries + 1 = 4
    /\ dl.requests <= maxRetries + 1
    /\ dl.requests = Len(dl.outcomes)
    /\ dl.requests = maxRetries + 1 => dl.result # "running"
    /\ (\A k \in DOMAIN dl.outcomes : Failing(dl.outcomes[k])) =>
          /\ dl.result # "body"
          /\ dl.result = "error" <=> dl.requests = maxRetries + 1
    /\ (\E k \in DOMAIN dl.outcomes : dl.outcomes[k] = 200) <=> dl.result = "body"
    /\ \A k \in DOMAIN dl.outcomes : dl.outcomes[k] = 200 => k = Len(dl.outcomes)

\* the fourth request was answered 200 after three failures
C32_Witness ==
    /\ pc = "download"
    /\ dl.outcomes = <<TransportError, 503, 429, 200>>
    /\ dl.result = "body"

\* ------------------------------------------------------------------------
\* C33
\* ------------------------------------------------------------------------
\* the answers that came with a response whose status is not 200
NonOK(outcomes) ==
    {k \in DOMAIN outcomes : outcomes[k] # TransportError /\ outcomes[k] # 200}

\* C33: DownloadFile makes a further request only after a transport error, a
\* 5xx status or a 429 status, and only while fewer than 4 were made; any
\* other status that is not 200 makes it return the "unexpected status code"
\* error at once; the body of every response that is not 200 has been closed
\* by the time it retries or returns.
C33_RetryPolicy ==
    /\ [](/\ \A k \in DOMAIN dl.outcomes :
                k < Len(dl.outcomes) => Failing(dl.outcomes[k]) /\ k < maxRetries + 1
          /\ \A k \in DOMAIN dl.outcomes :
                (~Failing(dl.outcomes[k]) /\ dl.outcomes[k] # 200) =>
                    /\ dl.result = "error"
                    /\ dl.err = "unexpected status code"
                    /\ ~ENABLED NextDownload
          /\ dl.closed = Cardinality(NonOK(dl.outcomes))
          /\ dl.opened - dl.closed = (IF dl.result = "body" THEN 1 ELSE 0))
    /\ [][dl'.requests > dl.requests =>
            /\ dl.requests < maxRetries + 1
            /\ dl.requests > 0 => Failing(dl.outcomes[dl.requests])]_vars

\* a 404 after two retried answers: returned at once, three bodies closed
C33_Witness ==
    /\ pc = "download"
    /\ dl.outcomes = <<500, 429, 404>>
    /\ dl.result = "error"
    /\ dl.err = "unexpected status code"
    /\ dl.closed = 3

\* ------------------------------------------------------------------------
\* C34
\* ------------------------------------------------------------------------
\* C34: within one run a filename is processed at most once: no two
\* components of the pending list were built from the same filename, however
\* often the catalogs of the run list it.
C34_OncePerRun ==
    \A i, j \in DOMAIN newComponents :
        i # j => PendingCab(newComponents[i]) # PendingCab(newComponents[j])

\* ------------------------------------------------------------------------
\* C35
\* ------------------------------------------------------------------------
\* a step of a ProcessVendor call: its entry, or a step of its loop
InProcessVendor == FetchCatalog \/ pc \in {"entry", "retrieve", "convert", "build"}

\* C35: no step of ProcessVendor changes the membership index, the loaded
\* document, the vendor registry, the stored document or the stored record;
\* the only key it adds to storage is "<filename>.cab" of the entry it is
\* processing; and the pending list changes only by one component appended.
C35_ProcessVendorFrame ==
    [][InProcessVendor =>
          /\ existingIndex' = existingIndex
          /\ existingMetadata' = existingMetadata
          /\ vendors' = vendors
          /\ stMeta' = stMeta
          /\ stSig' = stSig
          /\ stCabs' # stCabs =>
                pc = "build" /\ stCabs' = stCabs \cup {fwName \o ".cab"}
          /\ newComponents' # newComponents =>
                /\ Len(newComponents') = Len(newComponents) + 1
                /\ SubSeq(newComponents', 1, Len(newComponents)) = newComponents]_vars

\* a ProcessVendor under a loaded document has skipped one entry and
\* processed another, whose cabinet is stored
C35_Witness ==
    /\ pc = "entry"
    /\ skipped = 1
    /\ processed = 1
    /\ existingMetadata # Nil
    /\ existingIndex # {}
    /\ Len(newComponents) = 1
    /\ PendingCab(newComponents[1]) \in stCabs

\* ------------------------------------------------------------------------
\* C36
\* ------------------------------------------------------------------------
\* the errors of a SaveMetadata that failed at the serialization, the
\* temporary file, the compression or the signing
BeforeUploadErrors ==
    {"marshal, temporary file or compression failed",
     "failed to create JCAT file with checksums",
     "failed to add signature to JCAT file"}

\* C36: a SaveMetadata that fails at the serialization, at the temporary
\* file, at the compression or at the signing makes no Storage.Write, and the
\* stored document, the stored record and the stored cabinets are what they
\* were before the call.
C36_FailedSaveLeavesStorage ==
    [][(pc = "save" /\ pc' = "done" /\ saveErr' \in BeforeUploadErrors) =>
          /\ saveWrites' = {}
          /\ stMeta' = stMeta
          /\ stSig' = stSig
          /\ stCabs' = stCabs]_vars

\* a save with pending components failed at jcat-tool sign, over a stored
\* document and record
C36_Witness ==
    /\ pc = "done"
    /\ newComponents # <<>>
    /\ saveErr = "failed to add signature to JCAT file"
    /\ stMeta # Absent
    /\ stSig # Absent
    /\ stMeta = metaAtStart
    /\ saveWrites = {}

\* ------------------------------------------------------------------------
\* C37
\* ------------------------------------------------------------------------
\* what a component says of itself, its releases apart
Described(comp) == <<comp.ID, comp.Summary, comp.URL>>

\* the releases of a sequence, in order, whatever their Location
KeySeq(releases) == [i \in DOMAIN releases |-> ReleaseKey(releases[i])]

\* C37: when SaveMetadata publishes a component whose identity is both in
\* the loaded document and in the pending list, the published component has
\* the summary and the URL of the loaded one, not those of the pending ones,
\* and its releases are the loaded ones, in their order, followed by the
\* pending ones, in theirs.
C37_MergeKeepsDescription ==
    SavedOK =>
        \A id \in IDsOf(PriorComponents) \cap IDsOf(newComponents) :
            LET out == Decoded(stMeta)
            IN  /\ \E k \in DOMAIN out : out[k].ID = id
                /\ \A k \in DOMAIN out :
                      out[k].ID = id =>
                          \E p \in DOMAIN PriorComponents :
                              /\ Described(out[k]) = Described(PriorComponents[p])
                              /\ KeySeq(out[k].Releases) =
                                    KeySeq(PriorComponents[p].Releases)
                                    \o KeySeq(ReleasesOf(newComponents, id))
                              /\ \A r \in DOMAIN PriorComponents[p].Releases :
                                    PriorComponents[p].Releases[r].Location # "" =>
                                        out[k].Releases[r] = PriorComponents[p].Releases[r]

\* a pending component with a summary and a URL of its own was merged into
\* the loaded component of its identity
C37_Witness ==
    /\ SavedOK
    /\ \E p \in DOMAIN PriorComponents, n \in DOMAIN newComponents :
          /\ PriorComponents[p].ID = newComponents[n].ID
          /\ Described(PriorComponents[p]) # Described(newComponents[n])
          /\ newComponents[n].URL # ""
          /\ \E k \in DOMAIN Decoded(stMeta) :
                /\ Decoded(stMeta)[k].ID = newComponents[n].ID
                /\ Len(Decoded(stMeta)[k].Releases) > Len(PriorComponents[p].Releases)

\* ------------------------------------------------------------------------
\* C38
\* ------------------------------------------------------------------------
\* C38: a LoadMetadata that returns an error, at the existence check, the
\* read, the decompression or the parse, leaves the syncer without a loaded
\* document and with the index it had, which is empty; and the index holds
\* a filename only when a document was parsed whole, and then holds the
\* filenames of that document.
C38_LoadAllOrNothing ==
    /\ [](/\ existingMetadata = Nil => existingIndex = {}
          /\ existingMetadata # Nil =>
                /\ existingIndex = BuildIndex(existingMetadata[1])
                /\ Decoded(metaAtStart) = existingMetadata[1].Component)
    /\ [][(pc = "load" /\ pc' # "load" /\ loadErr' # NoError) =>
             /\ existingMetadata' = Nil
             /\ existingIndex' = existingIndex
             /\ existingIndex' = {}]_vars

\* the read of a stored document that is well formed has failed
C38_Witness ==
    /\ pc = "vendors"
    /\ loadErr = "failed to read metadata file"
    /\ Decoded(stMeta) # <<>>
    /\ existingMetadata = Nil
    /\ existingIndex = {}

\* ------------------------------------------------------------------------
\* C39
\* ------------------------------------------------------------------------
\* C39: when RetrieveFirmware is about to be called for an entry, the
\* scratch directory of the entry holds no firmware file of an earlier
\* attempt, so that the file checksummed and packaged is the one this
\* attempt downloads.
C39_RetrievalStartsClean ==
    pc = "retrieve" => "firmware" \notin wrk[fwName]

====
